---- MODULE Spec2Model ----
(***************************************************************************)
(* Model of the search core of lcc-toolkit:                                *)
(*   - CountryMetadataFiltering   (src/lcc/views/country.py)               *)
(*   - LegislationExplorer.get_queryset and HighlightedLaws                *)
(*                                (src/lcc/views/legislation.py)           *)
(*   - LegislationAdmin.generate_pages   (src/lcc/admin.py)                *)
(*                                                                         *)
(* Text is modelled at character level where the code slices it: a name,   *)
(* a word or a highlight fragment is a sequence of one-character strings.  *)
(*                                                                         *)
(* Linking note.  legislation.py:417 calls                                 *)
(*   self.filter_countries(self.request, selected_countries=...)           *)
(* while country.py:60 declares filter_countries(self, request,            *)
(* filteres=None), and legislation.py:24-31 imports the range tables from  *)
(* lcc.views.country, which only reaches them through lcc.models.  The     *)
(* two files disagree on that interface; the call is modelled as running   *)
(* the body of country.py:60-70 on the request (that body reads nothing    *)
(* but the request), the keyword having no counterpart in it.              *)
(***************************************************************************)
EXTENDS Integers, Sequences, FiniteSets, TLC

VARIABLES
    data,       \* CountryMetadataFiltering.data of the builder in use
    creq,       \* request passed to the last filter_countries call
    cout,       \* outcome of the last filter_countries call
    called,     \* TRUE once filter_countries ran on the builder in use
    store,      \* primary keys of the Legislation rows in the relational store
    pc,         \* "ready": a view instance awaits its request; "done": it answered
    req,        \* the request the explorer view answered
    gap,        \* hits for which the index returned no nested inner-hit payload
    search,     \* the composed search and the sort handed to HighlightedLaws
    hits,       \* the hits of the delivered slice
    out,        \* the outcome: exception or delivered page
    pdf_file,   \* per law, its PDF file: the name ("" when absent) and page count
    pages,      \* per law, the number of stored LegislationPage rows
    before,     \* pages as they were when the last admin action started
    selected,   \* the laws of the last admin action's queryset
    report      \* the counters of the last admin action's message

cvars == <<data, creq, cout, called>>
evars == <<store, pc, req, gap, search, hits, out>>
avars == <<pdf_file, pages, before, selected, report>>
vars == <<data, creq, cout, called, store, pc, req, gap, search, hits, out,
          pdf_file, pages, before, selected, report>>

-----------------------------------------------------------------------------
(* Generic helpers *)

Range(s) == {s[i] : i \in 1..Len(s)}

RECURSIVE SetToSeq(_)
\* A set of integers as the ascending sequence of its elements.
SetToSeq(S) ==
    IF S = {} THEN <<>>
    ELSE LET m == CHOOSE x \in S : \A y \in S : x <= y
         IN <<m>> \o SetToSeq(S \ {m})

-----------------------------------------------------------------------------
(* Request parameter values.  Every value has the same shape so that       *)
(* requests are functions from parameter names to values:                  *)
(*   t = "True" | "False" | "true"  the literal text of a boolean flag     *)
(*   t = "int", i                   text that int() parses to i            *)
(*   t = "nan"                      text that int() rejects                *)
(*   t = "list", l                  a getlist() value, set of names        *)

Val(t, i, l) == [t |-> t, i |-> i, l |-> l]

\* Largest bucket index a request carries (indices range over -(MaxIdx+1)..MaxIdx).
MaxIdx == 3

BoolVals == {Val("True", 0, {}), Val("False", 0, {}), Val("true", 0, {})}
ListVals == {Val("list", 0, L) : L \in (SUBSET {"Europe", "Asia"}) \ {{}}}
RangeVals == {Val("int", i, {}) : i \in (0 - (MaxIdx + 1))..MaxIdx} \cup {Val("nan", 0, {})}

-----------------------------------------------------------------------------
(* Country reference data and the Range Bucket Tables *)

BOOLEAN_FIELDS == <<"cw", "small_cw", "un", "ldc", "lldc", "sid">>
LIST_FIELDS == <<"region", "sub_region", "legal_system">>
RANGE_FIELD_NAMES == <<"population", "hdi2015", "gdp_capita", "ghg_no_lucf", "ghg_lucf">>

\* Bucket tables: entry [0] is the minimum and entry [1] the maximum of a bucket.
POP_RANGES == << <<0, 9>>, <<10, 19>>, <<20, 29>> >>
HDI_RANGES == << <<0, 4>>, <<5, 9>> >>
GDP_RANGES == << <<0, 4>>, <<5, 9>> >>
GHG_NO_LUCF == << <<0, 4>>, <<5, 9>> >>
GHG_LUCF == << <<0, 4>>, <<5, 9>> >>

RANGE_FIELDS ==
    [population |-> POP_RANGES, hdi2015 |-> HDI_RANGES, gdp_capita |-> GDP_RANGES,
     ghg_no_lucf |-> GHG_NO_LUCF, ghg_lucf |-> GHG_LUCF]

Countries == {"AA", "BB", "CC"}

CountryRow ==
    [AA |-> [name |-> 1, cw |-> TRUE, small_cw |-> FALSE, un |-> TRUE, ldc |-> FALSE,
             lldc |-> FALSE, sid |-> FALSE,
             region |-> {"Europe"}, sub_region |-> {"Europe"}, legal_system |-> {"Europe"},
             population |-> 5, hdi2015 |-> 7, gdp_capita |-> 7, ghg_no_lucf |-> 2,
             ghg_lucf |-> 2],
     BB |-> [name |-> 2, cw |-> FALSE, small_cw |-> FALSE, un |-> TRUE, ldc |-> TRUE,
             lldc |-> TRUE, sid |-> FALSE,
             region |-> {"Asia"}, sub_region |-> {"Asia"}, legal_system |-> {"Asia"},
             population |-> 15, hdi2015 |-> 3, gdp_capita |-> 3, ghg_no_lucf |-> 6,
             ghg_lucf |-> 6],
     CC |-> [name |-> 3, cw |-> TRUE, small_cw |-> TRUE, un |-> FALSE, ldc |-> TRUE,
             lldc |-> FALSE, sid |-> TRUE,
             region |-> {"Asia"}, sub_region |-> {"Asia"}, legal_system |-> {"Europe"},
             population |-> 25, hdi2015 |-> 3, gdp_capita |-> 8, ghg_no_lucf |-> 6,
             ghg_lucf |-> 8]]

-----------------------------------------------------------------------------
(* CountryMetadataFiltering *)

\* self.data: lookup key -> value; a key is <<field, suffix>>.
EmptyData == [k \in {} |-> Val("nan", 0, {})]

Put(d, k, v) == [x \in (DOMAIN d) \cup {k} |-> IF x = k THEN v ELSE d[x]]

Has(request, field) == field \in DOMAIN request

\* Python's sequence[i]: a negative i counts from the end.
PyInRange(seq, i) == (0 - Len(seq)) <= i /\ i < Len(seq)
PyIndex(seq, i) == IF i >= 0 THEN seq[i + 1] ELSE seq[Len(seq) + i + 1]

\* Each filter_* step maps the builder's data to [data, err].
Step(d, e) == [data |-> d, err |-> e]

filter_boolean_fields(request, field, d) ==
    IF ~Has(request, field) THEN Step(d, "")
    ELSE IF request[field].t = "True" THEN Step(Put(d, <<field, "">>, Val("bool", 1, {})), "")
    ELSE IF request[field].t = "False" THEN Step(Put(d, <<field, "">>, Val("bool", 0, {})), "")
    ELSE Step(d, "ValueError")

filter_list_fields(request, field, d) ==
    IF Has(request, field) /\ request[field].l # {}
    THEN Step(Put(d, <<field, "__name__in">>, Val("list", 0, request[field].l)), "")
    ELSE Step(d, "")

filter_range_fields(request, field, d) ==
    IF ~Has(request, field) THEN Step(d, "")
    ELSE IF request[field].t # "int" THEN Step(d, "ValueError")
    ELSE IF ~PyInRange(RANGE_FIELDS[field], request[field].i) THEN Step(d, "IndexError")
    ELSE LET bucket == PyIndex(RANGE_FIELDS[field], request[field].i)
         IN Step(Put(Put(d, <<field, "__gte">>, Val("int", bucket[1], {})),
                     <<field, "__lte">>, Val("int", bucket[2], {})), "")

\* The three loops of filter_countries, in order; an exception ends the walk
\* and keeps what earlier fields already stored.
AllFields ==
    [i \in 1..Len(BOOLEAN_FIELDS) |-> <<"bool", BOOLEAN_FIELDS[i]>>]
    \o [i \in 1..Len(LIST_FIELDS) |-> <<"list", LIST_FIELDS[i]>>]
    \o [i \in 1..Len(RANGE_FIELD_NAMES) |-> <<"range", RANGE_FIELD_NAMES[i]>>]

RECURSIVE WalkFields(_, _, _)
WalkFields(request, i, st) ==
    IF i > Len(AllFields) \/ st.err # "" THEN st
    ELSE LET kind == AllFields[i][1]
             field == AllFields[i][2]
             nxt == IF kind = "bool" THEN filter_boolean_fields(request, field, st.data)
                    ELSE IF kind = "list" THEN filter_list_fields(request, field, st.data)
                    ELSE filter_range_fields(request, field, st.data)
         IN WalkFields(request, i + 1, nxt)

\* countries.filter(**data): every stored lookup must hold.
Satisfies(c, d) ==
    \A k \in DOMAIN d :
        LET f == k[1]
            v == d[k]
        IN CASE k[2] = "" -> CountryRow[c][f] = (v.i = 1)
             [] k[2] = "__name__in" -> CountryRow[c][f] \cap v.l # {}
             [] k[2] = "__gte" -> CountryRow[c][f] >= v.i
             [] k[2] = "__lte" -> CountryRow[c][f] <= v.i

\* filter_countries(request) on a builder whose data is d: [data, err, countries].
filter_countries(request, d) ==
    LET st == WalkFields(request, 1, Step(d, ""))
    IN [data |-> st.data, err |-> st.err,
        countries |-> IF st.err = "" THEN {c \in Countries : Satisfies(c, st.data)} ELSE {}]

-----------------------------------------------------------------------------
(* Requests to the Facet Filter Builder *)

\* Parameters that requests of the model carry for the builder.
ReqFields == {"cw", "region", "population"}

ValsOf(field) ==
    IF field = "cw" THEN BoolVals
    ELSE IF field = "region" THEN ListVals
    ELSE RangeVals

AllVals == BoolVals \cup ListVals \cup RangeVals

CountryRequests ==
    UNION {{r \in [D -> AllVals] : \A f \in D : r[f] \in ValsOf(f)} : D \in SUBSET ReqFields}

NoRequest == [f \in {} |-> Val("nan", 0, {})]

-----------------------------------------------------------------------------
(* Text: names, words and highlight fragments are sequences of characters *)

EmOpen == <<"<", "e", "m", ">">>
EmClose == <<"<", "/", "e", "m", ">">>

\* The index's emphasis marker around a matched value.
Em(name) == EmOpen \o name \o EmClose

\* '<em>' in tag
HasEm(tag) ==
    \E i \in 1..(Len(tag) - Len(EmOpen) + 1) : SubSeq(tag, i, i + Len(EmOpen) - 1) = EmOpen

\* tag[4:-5]
StripEm(tag) == SubSeq(tag, 5, Len(tag) - 5)

Adaptation == <<"a", "d">>
Mitigation == <<"m", "i">>
Forestry == <<"f", "o">>
Energy == <<"e", "n">>
Climate == <<"c", "l">>
Water == <<"w", "a">>

\* Taxonomy store: primary key -> name.
TaxonomyTag == [pk \in {1, 2} |-> IF pk = 1 THEN Adaptation ELSE Mitigation]
TaxonomyClassification == [pk \in {1, 2} |-> IF pk = 1 THEN Forestry ELSE Energy]

\* objects.filter(pk__in=ids).values_list('name', flat=True)
NamesOf(table, ids) == {table[pk] : pk \in ids \cap DOMAIN table}

-----------------------------------------------------------------------------
(* The corpus: legislation documents with their articles, as stored when   *)
(* the index was built.                                                    *)

Article(pk, code, text, tags, classifications) ==
    [pk |-> pk, code |-> code, text |-> text, tags |-> tags,
     classifications |-> classifications]

Corpus ==
    << [country |-> "AA", law_type |-> "Law", year |-> 2010, year_amendment |-> {},
        year_mentions |-> {}, title |-> <<Climate>>, abstract |-> <<Water>>,
        pdf_text |-> <<Climate, Water>>, tags |-> <<Adaptation>>, classifications |-> <<>>,
        articles |-> <<>>],
       [country |-> "BB", law_type |-> "Law", year |-> 2001, year_amendment |-> {},
        year_mentions |-> {2001}, title |-> <<Water>>, abstract |-> <<Water>>,
        pdf_text |-> <<>>, tags |-> <<>>, classifications |-> <<>>,
        articles |-> <<>>],
       [country |-> "CC", law_type |-> "Constitution", year |-> 2005,
        year_amendment |-> {}, year_mentions |-> {2011}, title |-> <<Climate>>,
        abstract |-> <<Climate>>, pdf_text |-> <<>>, tags |-> <<Mitigation>>,
        classifications |-> <<Forestry>>,
        articles |-> << Article(31, "I", <<Water>>, <<>>, <<>>) >>],
       [country |-> "AA", law_type |-> "Constitution", year |-> 2020,
        year_amendment |-> {}, year_mentions |-> {}, title |-> <<Water>>,
        abstract |-> <<>>, pdf_text |-> <<>>, tags |-> <<>>, classifications |-> <<Energy>>,
        articles |-> << Article(41, "I", <<Climate>>, <<Mitigation>>, <<>>) >>],
       [country |-> "BB", law_type |-> "Law", year |-> 2012, year_amendment |-> {2016},
        year_mentions |-> {}, title |-> <<Water>>, abstract |-> <<>>,
        pdf_text |-> <<Water>>, tags |-> <<>>, classifications |-> <<>>,
        articles |-> << Article(51, "I", <<Climate>>, <<Adaptation>>, <<>>),
                        Article(52, "II", <<Water>>, <<Adaptation, Mitigation>>,
                                <<Forestry>>) >>] >>

LawIds == DOMAIN Corpus

\* Flatten a sequence of sequences.
RECURSIVE Flatten(_)
Flatten(ss) == IF ss = <<>> THEN <<>> ELSE Head(ss) \o Flatten(Tail(ss))

\* LegislationDocument: the index projection of law id (document-level fields,
\* the lists pre-aggregated from its articles, and the nested articles with the
\* parent's lists copied down).
IndexDoc(id) ==
    LET law == Corpus[id]
    IN [id |-> id, country |-> law.country, country_name |-> CountryRow[law.country].name,
        law_type |-> law.law_type, year |-> law.year,
        year_amendment |-> law.year_amendment, year_mentions |-> law.year_mentions,
        title |-> law.title, abstract |-> law.abstract, pdf_text |-> law.pdf_text,
        tags |-> law.tags, classifications |-> law.classifications,
        article_tags |-> Flatten([i \in DOMAIN law.articles |-> law.articles[i].tags]),
        article_classifications |->
            Flatten([i \in DOMAIN law.articles |-> law.articles[i].classifications]),
        articles |-> [i \in DOMAIN law.articles |->
            [pk |-> law.articles[i].pk, code |-> law.articles[i].code,
             text |-> law.articles[i].text,
             tags_text |-> law.articles[i].tags,
             classifications_text |-> law.articles[i].classifications,
             parent_tags |-> law.tags,
             parent_classifications |-> law.classifications]]]

-----------------------------------------------------------------------------
(* Query Composer: LegislationExplorer.get_queryset, lines 197-450 *)

\* One facet clause: match_phrase of any of `names` on `field`.
Facet(field, names) == [field |-> field, names |-> names]

NoSearch ==
    [mode |-> "all", law_queries |-> <<>>, article_queries |-> <<>>, q |-> <<>>,
     country |-> [on |-> FALSE, v |-> {}], law_type |-> [on |-> FALSE, v |-> {}],
     years |-> [on |-> FALSE, from |-> 0, to |-> 0], sort_id |-> FALSE]

\* '1' read as descending and anything else as ascending.
get_sort_flipped(request) ==
    IF request.promulgation_sort # ""
    THEN (IF request.promulgation_sort = "1" THEN "-year" ELSE "year")
    ELSE IF request.country_sort # ""
    THEN (IF request.country_sort = "1" THEN "-country_name" ELSE "country_name")
    ELSE ""

\* LegislationExplorer.get_sort
get_sort(request) ==
    IF request.promulgation_sort # ""
    THEN (IF request.promulgation_sort = "1" THEN "year" ELSE "-year")
    ELSE IF request.country_sort # ""
    THEN (IF request.country_sort = "1" THEN "country_name" ELSE "-country_name")
    ELSE ""

\* Lines 207-297: the facet clauses; reduce() over no names raises TypeError.
FacetQueries(request) ==
    LET classification_names == NamesOf(TaxonomyClassification, request.classifications)
        tag_names == NamesOf(TaxonomyTag, request.tags)
        cl == IF request.classifications # {}
              THEN <<Facet("classifications", classification_names)>> ELSE <<>>
        tg == IF request.tags # {} THEN <<Facet("tags", tag_names)>> ELSE <<>>
    IN [err |-> IF \/ request.classifications # {} /\ classification_names = {}
                   \/ request.tags # {} /\ tag_names = {}
                THEN "TypeError" ELSE "",
        law_queries |-> cl \o tg,
        article_queries |-> cl \o tg]

\* Lines 412-420: the country terms filter.
CountryTerms(request, filtering_countries) ==
    IF request.countries # {} \/ Cardinality(filtering_countries) # Cardinality(Countries)
    THEN [on |-> TRUE, v |-> request.countries \cup filtering_countries]
    ELSE [on |-> FALSE, v |-> {}]

\* Lines 427-439: the year filter.
YearFilter(request) ==
    IF request.from_year # <<>> /\ request.to_year # <<>>
    THEN [on |-> TRUE, from |-> request.from_year[1], to |-> request.to_year[1]]
    ELSE [on |-> FALSE, from |-> 0, to |-> 0]

\* Lines 197-450: [err, search, sort].
ComposeSearch(request) ==
    LET fq == FacetQueries(request)
        sort == get_sort(request)
        fc == filter_countries(request.meta, EmptyData)
    IN IF fq.err # "" THEN [err |-> fq.err, search |-> NoSearch, sort |-> sort]
       ELSE IF sort # "" THEN [err |-> "", search |-> NoSearch, sort |-> sort]
       ELSE IF fc.err # "" THEN [err |-> fc.err, search |-> NoSearch, sort |-> sort]
       ELSE [err |-> "", sort |-> sort,
             search |->
                [mode |-> IF request.q # <<>> THEN "q"
                          ELSE IF fq.law_queries # <<>> THEN "facets" ELSE "all",
                 law_queries |-> fq.law_queries,
                 article_queries |-> fq.article_queries,
                 q |-> request.q,
                 country |-> CountryTerms(request, fc.countries),
                 law_type |-> [on |-> request.law_types # {}, v |-> request.law_types],
                 years |-> YearFilter(request),
                 sort_id |-> request.classifications = {} /\ request.tags = {}
                             /\ request.q = <<>>]]

-----------------------------------------------------------------------------
(* The index: which documents a composed search matches *)

\* Q('match_phrase', <field>=name) | Q('match_phrase', article_<field>=name), any name
LawQ(doc, fc) ==
    IF fc.field = "tags"
    THEN fc.names \cap (Range(doc.tags) \cup Range(doc.article_tags)) # {}
    ELSE fc.names \cap (Range(doc.classifications) \cup Range(doc.article_classifications)) # {}

\* articles.<field>_text=name | articles.parent_<field>=name, any name
ArticleQ(art, fc) ==
    IF fc.field = "tags"
    THEN fc.names \cap (Range(art.tags_text) \cup Range(art.parent_tags)) # {}
    ELSE fc.names \cap (Range(art.classifications_text) \cup Range(art.parent_classifications)) # {}

\* multi_match of q on title, abstract, pdf_text, classifications, tags
LawText(doc, q) ==
    q \in Range(doc.title) \cup Range(doc.abstract) \cup Range(doc.pdf_text)
          \cup Range(doc.classifications) \cup Range(doc.tags)

\* multi_match / constant_score match_phrase of q on articles.text
ArticleText(art, q) == q \in Range(art.text)

\* The facet clauses of the document joined with OR instead of AND.
AnyLawQ(doc, s) == \E i \in DOMAIN s.law_queries : LawQ(doc, s.law_queries[i])

AllLawQ(doc, s) == \A i \in DOMAIN s.law_queries : LawQ(doc, s.law_queries[i])
AllArticleQ(art, s) == \A i \in DOMAIN s.article_queries : ArticleQ(art, s.article_queries[i])

\* Articles matched by the nested clause over article_queries (lines 334-349, 385-399).
NestedFacets(doc, s) == {i \in DOMAIN doc.articles : AllArticleQ(doc.articles[i], s)}

\* Articles matched by the nested clause over article_queries + article_q_query
\* (lines 353-373).
NestedFacetsText(doc, s) ==
    {i \in DOMAIN doc.articles :
        AllArticleQ(doc.articles[i], s) /\ ArticleText(doc.articles[i], s.q)}

q_in_law(doc, s) ==
    /\ AllLawQ(doc, s)
    /\ LawText(doc, s.q)
    /\ (s.article_queries # <<>> => NestedFacets(doc, s) # {})

\* The nested clause without the free-text part.
q_in_article_no_text(doc, s) ==
    /\ AllLawQ(doc, s)
    /\ NestedFacets(doc, s) # {}

q_in_article(doc, s) ==
    /\ AllLawQ(doc, s)
    /\ NestedFacetsText(doc, s) # {}

\* The two clauses required together instead of either one.
final_query_must(doc, s) == AllLawQ(doc, s) /\ NestedFacets(doc, s) # {}

\* Lines 379-410: bool(should=[root_query, nested_query], minimum_should_match=1)
final_query(doc, s) == AllLawQ(doc, s) \/ NestedFacets(doc, s) # {}

InYears(doc, y) ==
    \/ y.from <= doc.year /\ doc.year <= y.to
    \/ \E a \in doc.year_amendment : y.from <= a /\ a <= y.to
    \/ \E m \in doc.year_mentions : y.from <= m /\ m <= y.to

Matches(doc, s) ==
    /\ CASE s.mode = "q" -> q_in_law(doc, s) \/ q_in_article(doc, s)
         [] s.mode = "facets" -> final_query(doc, s)
         [] OTHER -> TRUE
    /\ (s.country.on => doc.country \in s.country.v)
    /\ (s.law_type.on => doc.law_type \in s.law_type.v)
    /\ (s.years.on => InYears(doc, s.years))

-----------------------------------------------------------------------------
(* The index: ranking, slicing and the highlight payload of a hit *)

\* Stand-in for the index's relevance score: the number of query clauses the
\* document satisfies (document-level facets, matching articles, free text).
Score(doc, s) ==
    Cardinality({i \in DOMAIN s.law_queries : LawQ(doc, s.law_queries[i])})
    + (IF s.article_queries # <<>> THEN Cardinality(NestedFacets(doc, s)) ELSE 0)
    + (IF s.q # <<>> /\ LawText(doc, s.q) THEN 1 ELSE 0)
    + (IF s.q # <<>> THEN Cardinality(NestedFacetsText(doc, s)) ELSE 0)

\* The id sort taken in descending order.
SortKeyIdDescending(doc, s, sort) ==
    CASE sort = "year" -> doc.year
      [] sort = "-year" -> 0 - doc.year
      [] sort = "country_name" -> doc.country_name
      [] sort = "-country_name" -> 0 - doc.country_name
      [] sort = "" /\ s.sort_id -> 0 - doc.id
      [] OTHER -> 0 - Score(doc, s)

\* The value hits are ordered by, ascending: the explicit sort of
\* HighlightedLaws (line 50), else the id sort of line 448, else relevance.
SortKey(doc, s, sort) ==
    CASE sort = "year" -> doc.year
      [] sort = "-year" -> 0 - doc.year
      [] sort = "country_name" -> doc.country_name
      [] sort = "-country_name" -> 0 - doc.country_name
      [] sort = "" /\ s.sort_id -> doc.id
      [] OTHER -> 0 - Score(doc, s)

RECURSIVE OrderIds(_, _, _)
OrderIds(S, s, sort) ==
    IF S = {} THEN <<>>
    ELSE LET Before(a, b) ==
                 \/ SortKey(IndexDoc(a), s, sort) < SortKey(IndexDoc(b), s, sort)
                 \/ /\ SortKey(IndexDoc(a), s, sort) = SortKey(IndexDoc(b), s, sort)
                    /\ a <= b
             m == CHOOSE x \in S : \A y \in S : Before(x, y)
         IN <<m>> \o OrderIds(S \ {m}, s, sort)

\* Every document the search matches, in the order the index returns them.
SearchIds(s, sort) == OrderIds({id \in LawIds : Matches(IndexDoc(id), s)}, s, sort)

FacetNames(s, field) ==
    UNION {s.law_queries[i].names : i \in {j \in DOMAIN s.law_queries :
                                               s.law_queries[j].field = field}}

QTerm(s) == IF s.q # <<>> THEN {s.q} ELSE {}

\* A field's values with every queried one wrapped in the emphasis marker;
\* no fragment at all when nothing in the field was queried.
Mark(seq, terms) ==
    IF Range(seq) \cap terms = {} THEN <<>>
    ELSE [i \in DOMAIN seq |-> IF seq[i] \in terms THEN Em(seq[i]) ELSE seq[i]]

\* hit.meta.highlight for the fields requested at lines 375-377 and 441-444.
TopHighlight(doc, s) ==
    [abstract |-> IF s.mode = "q" THEN Mark(doc.abstract, QTerm(s)) ELSE <<>>,
     pdf_text |-> IF s.mode = "q" THEN Mark(doc.pdf_text, QTerm(s)) ELSE <<>>,
     title |-> Mark(doc.title, QTerm(s)),
     classifications |->
        Mark(doc.classifications, FacetNames(s, "classifications") \cup QTerm(s)),
     article_classifications |->
        Mark(doc.article_classifications, FacetNames(s, "classifications")),
     tags |-> Mark(doc.tags, FacetNames(s, "tags") \cup QTerm(s)),
     article_tags |-> Mark(doc.article_tags, FacetNames(s, "tags"))]

\* The nested clauses carry inner_hits under the default name of the path: in a
\* free-text search the clause of q_in_article is the one registered last.
InnerArticles(doc, s) ==
    IF s.mode = "q" THEN NestedFacetsText(doc, s) ELSE NestedFacets(doc, s)

\* article.meta.highlight over article_highlights (+ articles.text with q).
InnerHit(art, s) ==
    [pk |-> art.pk, code |-> art.code,
     text |-> IF s.mode = "q" THEN Mark(art.text, QTerm(s)) ELSE <<>>,
     classifications_text |->
        Mark(art.classifications_text, FacetNames(s, "classifications")),
     tags_text |-> Mark(art.tags_text, FacetNames(s, "tags"))]

\* One hit of the response; `lost` is TRUE when the index returned no nested
\* inner-hit payload for it.
Hit(id, s, lost) ==
    LET doc == IndexDoc(id)
    IN [id |-> id,
        highlight |-> TopHighlight(doc, s),
        has_inner |-> s.mode \in {"q", "facets"},
        inner |-> IF lost \/ s.mode \notin {"q", "facets"} THEN <<>>
                  ELSE LET idx == SetToSeq(InnerArticles(doc, s))
                       IN [i \in DOMAIN idx |-> InnerHit(doc.articles[idx[i]], s)]]

\* self.search[key]: the hits of the slice [bottom:top].
SearchSlice(s, sort, bottom, top, lost) ==
    LET ids == SubSeq(SearchIds(s, sort), bottom + 1, top)
    IN [i \in DOMAIN ids |-> Hit(ids[i], s, ids[i] \in lost)]

-----------------------------------------------------------------------------
(* Result Hydrator: HighlightedLaws.__getitem__ *)

Ellipsis == <<"[", ".", "]">>

\* ' [...] '.join(fragments)
RECURSIVE Join(_)
Join(frags) ==
    IF frags = <<>> THEN <<>>
    ELSE IF Len(frags) = 1 THEN frags[1]
    ELSE frags[1] \o Ellipsis \o Join(Tail(frags))

\* A relational record as to_queryset() yields it, nothing attached yet.
\* `hit`, `fallback`, `fb_tags` and `fb_classifications` record which hit the
\* loop paired the record with and what the fallback branch used.
Plain(pk) ==
    [pk |-> pk, hit |-> 0,
     highlighted_abstract |-> <<>>, highlighted_pdf_text |-> <<>>,
     highlighted_title |-> <<>>, highlighted_classifications |-> <<>>,
     highlighted_tags |-> <<>>,
     highlighted_articles |-> [set |-> FALSE, v |-> <<>>],
     fallback |-> FALSE, fb_tags |-> <<>>, fb_classifications |-> <<>>]

\* hits.to_queryset(): the records whose pk is among the hits, in hit order.
to_queryset(hs, stored) ==
    LET ids == [i \in DOMAIN hs |-> hs[i].id]
    IN SelectSeq(ids, LAMBDA id : id \in stored)

\* [tag[4:-5] for tag in fragments if '<em>' in tag]
MatchedNames(frags) ==
    LET em == SelectSeq(frags, HasEm)
    IN [i \in DOMAIN em |-> StripEm(em[i])]

\* Lines 96-127: the article dicts built from the inner hits.
RECURSIVE InnerDicts(_)
InnerDicts(arts) ==
    IF arts = <<>> THEN <<>>
    ELSE LET a == Head(arts)
             has_highlight == a.text # <<>> \/ a.classifications_text # <<>>
                              \/ a.tags_text # <<>>
         IN (IF has_highlight
             THEN << [pk |-> a.pk, code |-> a.code, text |-> Join(a.text),
                      classifications |-> a.classifications_text,
                      tags |-> a.tags_text] >>
             ELSE <<>>) \o InnerDicts(Tail(arts))

RECURSIVE Repeat(_, _)
Repeat(x, n) == IF n <= 0 THEN <<>> ELSE <<x>> \o Repeat(x, n - 1)

\* Rows the OR of the two many-to-many lookups of lines 138-144 yields for one
\* article: one per (tag, classification) pair of its outer-joined rows that
\* satisfies either lookup.
JoinRows(art, mt, mc) ==
    LET ti == IF art.tags = <<>> THEN {0} ELSE DOMAIN art.tags
        ci == IF art.classifications = <<>> THEN {0} ELSE DOMAIN art.classifications
    IN Cardinality({p \in ti \X ci :
            \/ p[1] > 0 /\ art.tags[p[1]] \in mt
            \/ p[2] > 0 /\ art.classifications[p[2]] \in mc})

\* Lines 137-162: the article dicts of the fallback query on law.articles.
RECURSIVE FallbackDicts(_, _, _)
FallbackDicts(arts, mt, mc) ==
    IF arts = <<>> THEN <<>>
    ELSE LET a == Head(arts)
             d == [pk |-> a.pk, code |-> a.code, text |-> <<>>,
                   classifications |->
                       [i \in DOMAIN a.classifications |->
                           IF a.classifications[i] \in mc
                           THEN Em(a.classifications[i]) ELSE a.classifications[i]],
                   tags |-> [i \in DOMAIN a.tags |->
                           IF a.tags[i] \in mt THEN Em(a.tags[i]) ELSE a.tags[i]]]
         IN Repeat(d, JoinRows(a, mt, mc)) \o FallbackDicts(Tail(arts), mt, mc)

\* Lines 55-163, one turn of the loop: the record `pk` paired with `hit`,
\* given the names matched so far.
HydrateOne(hit, pk, mt0, mc0) ==
    LET h == hit.highlight
        mc == mc0 \o MatchedNames(h.article_classifications)
        mt == mt0 \o MatchedNames(h.article_tags)
        base == [Plain(pk) EXCEPT
                    !.hit = hit.id,
                    !.highlighted_abstract = Join(h.abstract),
                    !.highlighted_pdf_text = Join(h.pdf_text),
                    !.highlighted_title = h.title,
                    !.highlighted_classifications = h.classifications,
                    !.highlighted_tags = h.tags]
        law == IF ~hit.has_inner THEN base
               ELSE IF hit.inner # <<>>
               THEN [base EXCEPT !.highlighted_articles =
                                     [set |-> TRUE, v |-> InnerDicts(hit.inner)]]
               ELSE IF mc # <<>> \/ mt # <<>>
               THEN [base EXCEPT
                        !.highlighted_articles =
                            [set |-> TRUE,
                             v |-> FallbackDicts(Corpus[pk].articles, Range(mt), Range(mc))],
                        !.fallback = TRUE, !.fb_tags = mt, !.fb_classifications = mc]
               ELSE [base EXCEPT !.highlighted_articles = [set |-> TRUE, v |-> <<>>]]
    IN [law |-> law, mt |-> mt, mc |-> mc]

\* for hit, law in zip(hits, hits.to_queryset())
RECURSIVE HydrateLoop(_, _, _, _, _)
HydrateLoop(hs, pks, i, mt, mc) ==
    IF i > Len(hs) \/ i > Len(pks) THEN <<>>
    ELSE LET one == HydrateOne(hs[i], pks[i], mt, mc)
         IN <<one.law>> \o HydrateLoop(hs, pks, i + 1, one.mt, one.mc)

\* HighlightedLaws.__getitem__
getitem(hs, stored, sort) ==
    LET pks == to_queryset(hs, stored)
    IN IF sort # "" THEN [i \in DOMAIN pks |-> Plain(pks[i])]
       ELSE HydrateLoop(hs, pks, 1, <<>>, <<>>)

-----------------------------------------------------------------------------
(* Paginated Result Adapter: Paginator and lines 452-466 *)

\* settings.LAWS_PER_PAGE
LawsPerPage == 2

\* Paginator.num_pages
NumPages(count) ==
    LET n == IF count < 1 THEN 1 ELSE count
    IN (n + LawsPerPage - 1) \div LawsPerPage

\* Paginator.validate_number: "" or the exception it raises.
validate_number(page, num_pages) ==
    IF page.t # "int" THEN "PageNotAnInteger"
    ELSE IF page.i < 1 THEN "EmptyPage"
    ELSE IF page.i > num_pages /\ page.i # 1 THEN "EmptyPage"
    ELSE ""

\* Every paginator exception answered with the first page.
DeliveredPageFirst(page, num_pages) ==
    IF validate_number(page, num_pages) = "" THEN page.i ELSE 1

\* Lines 456-465: the number of the page that is delivered.
DeliveredPage(page, num_pages) ==
    LET e == validate_number(page, num_pages)
    IN IF e = "PageNotAnInteger" THEN 1
       ELSE IF e = "EmptyPage" THEN num_pages
       ELSE page.i

\* Paginator.page: the slice bounds of page `number`.
Bottom(number) == (number - 1) * LawsPerPage

\* The slice left open at its end: everything from the page's first hit on.
TopAll(number, count) == count

Top(number, count) ==
    IF Bottom(number) + LawsPerPage >= count THEN count ELSE Bottom(number) + LawsPerPage

-----------------------------------------------------------------------------
(* Requests to the explorer view *)

\* Largest page number a request asks for.
MaxPage == 4

\* Most parameters (groups) a request of Spec sets away from their defaults.
MaxActive == 3

\* Most laws deleted from the store while the index still lists them.
MaxDeleted == 1

Page(n) == Val("int", n, {})
NotAPage == Val("nan", 0, {})

ClsOpts == {{}, {1}, {9}}
TagOpts == {{}, {1}, {2}, {1, 2}, {9}}
QOpts == {<<>>, Climate, Adaptation}
CountryOpts == {{}, {"AA"}, {"AA", "BB"}}
MetaOpts ==
    {NoRequest,
     [f \in {"population"} |-> Val("int", 0, {})],
     [f \in {"cw"} |-> Val("True", 0, {})],
     [f \in {"population"} |-> Val("int", MaxIdx, {})]}
LawTypeOpts == {{}, {"Law"}}
YearOpts ==
    {[from |-> <<>>, to |-> <<>>], [from |-> <<2010>>, to |-> <<2015>>],
     [from |-> <<2000>>, to |-> <<2006>>], [from |-> <<2010>>, to |-> <<>>],
     [from |-> <<>>, to |-> <<2015>>]}
SortOpts ==
    {[p |-> "", c |-> ""], [p |-> "1", c |-> ""], [p |-> "0", c |-> ""],
     [p |-> "", c |-> "1"], [p |-> "", c |-> "0"], [p |-> "0", c |-> "1"]}
PageOpts == {Page(n) : n \in (0 - 1)..MaxPage} \cup {NotAPage}

Request(cl, tg, q, co, me, lt, yr, so, pg) ==
    [classifications |-> cl, tags |-> tg, q |-> q, countries |-> co, meta |-> me,
     law_types |-> lt, from_year |-> yr.from, to_year |-> yr.to,
     promulgation_sort |-> so.p, country_sort |-> so.c, page |-> pg]

\* The option sets of the nine parameter groups with, for each, the value of a
\* request that does not set the group.
Groups ==
    << <<ClsOpts, {}>>, <<TagOpts, {}>>, <<QOpts, <<>>>>, <<CountryOpts, {}>>,
       <<MetaOpts, NoRequest>>, <<LawTypeOpts, {}>>,
       <<YearOpts, [from |-> <<>>, to |-> <<>>]>>, <<SortOpts, [p |-> "", c |-> ""]>>,
       <<PageOpts, Page(1)>> >>

\* The choices for groups i.. that set at most `budget` of them.
RECURSIVE Choices(_, _)
Choices(i, budget) ==
    IF i > Len(Groups) THEN {<<>>}
    ELSE {<<Groups[i][2]>> \o t : t \in Choices(i + 1, budget)}
         \cup (IF budget = 0 THEN {}
               ELSE {<<o>> \o t : o \in Groups[i][1] \ {Groups[i][2]},
                                  t \in Choices(i + 1, budget - 1)})

IdleRequest ==
    Request({}, {}, <<>>, {}, NoRequest, {}, [from |-> <<>>, to |-> <<>>],
            [p |-> "", c |-> ""], Page(1))

IdleOut == [err |-> "", number |-> 0, num_pages |-> 0, count |-> 0, laws |-> <<>>]
IdleSearch == [query |-> NoSearch, sort |-> ""]

-----------------------------------------------------------------------------
(* The explorer view *)

ExplorerInit ==
    /\ store = LawIds
    /\ pc = "ready"
    /\ req = IdleRequest
    /\ gap = {}
    /\ search = IdleSearch
    /\ hits = <<>>
    /\ out = IdleOut

\* A view instance is created for the next request (View.as_view): it starts
\* with an empty builder and no result.
Setup ==
    /\ pc = "done"
    /\ pc' = "ready"
    /\ req' = IdleRequest
    /\ gap' = {}
    /\ search' = IdleSearch
    /\ hits' = <<>>
    /\ out' = IdleOut
    /\ UNCHANGED <<store, cvars, avars>>

\* LegislationDeleteView: a law leaves the relational store; the index is
\* refreshed later.
DeleteLaw(id) ==
    /\ pc = "ready"
    /\ id \in store
    /\ Cardinality(LawIds \ store) < MaxDeleted
    /\ store' = store \ {id}
    /\ UNCHANGED <<pc, req, gap, search, hits, out, cvars, avars>>

\* Hits of the slice for which the nested clause matched some article: the
\* ones whose inner-hit payload the index can fail to return.
CanLose(hs) == {hs[i].id : i \in {j \in DOMAIN hs : hs[j].inner # <<>>}}

\* Lines 452-466 with the page fetch: the hits of page `number` and the
\* records HighlightedLaws builds from them.
Deliver(request, lost, c, count, number) ==
    /\ lost \subseteq CanLose(SearchSlice(c.search, c.sort, Bottom(number),
                                         Top(number, count), {}))
    /\ gap' = lost
    /\ search' = [query |-> c.search, sort |-> c.sort]
    /\ hits' = SearchSlice(c.search, c.sort, Bottom(number), Top(number, count), lost)
    /\ out' = [err |-> "", number |-> number, num_pages |-> NumPages(count),
               count |-> count, laws |-> getitem(hits', store, c.sort)]

\* Lines 454-465: the page that is delivered out of `count` results.
Paginate(request, lost, c, count) ==
    Deliver(request, lost, c, count, DeliveredPage(request.page, NumPages(count)))

\* The answer to a request whose composed search is c.
Answer(request, lost, c) ==
    IF c.err # ""
    THEN /\ lost = {}
         /\ gap' = {}
         /\ search' = IdleSearch
         /\ hits' = <<>>
         /\ out' = [IdleOut EXCEPT !.err = c.err]
    ELSE Paginate(request, lost, c, Len(SearchIds(c.search, c.sort)))

\* LegislationExplorer.get_queryset, with the page fetch it ends in.
GetQueryset(request, lost) ==
    /\ pc = "ready"
    /\ pc' = "done"
    /\ req' = request
    /\ Answer(request, lost, ComposeSearch(request))
    /\ UNCHANGED <<store, cvars, avars>>

\* Requests that set at most MaxActive parameter groups.
Requests ==
    {Request(t[1], t[2], t[3], t[4], t[5], t[6], t[7], t[8], t[9]) :
        t \in Choices(1, MaxActive)}

\* Requests of the hydration specification: facets, free text, sort and page.
HydrateRequests ==
    {Request(cl, tg, q, {}, NoRequest, {}, [from |-> <<>>, to |-> <<>>], so, pg) :
        cl \in ClsOpts, tg \in TagOpts, q \in QOpts,
        so \in {[p |-> "", c |-> ""], [p |-> "1", c |-> ""]},
        pg \in {Page(1), Page(2)}}

\* A request arrives while the index is in step with the store.
Serve == pc = "ready" /\ \E request \in Requests : GetQueryset(request, {})

\* A request arrives; the index may lose inner-hit payloads.
ServeLossy ==
    /\ pc = "ready"
    /\ \E request \in HydrateRequests, lost \in SUBSET LawIds : GetQueryset(request, lost)

Next == Setup \/ Serve

HydrateNext == Setup \/ (\E id \in LawIds : DeleteLaw(id)) \/ ServeLossy

-----------------------------------------------------------------------------
(* Specification of the builder alone *)

CountryInit ==
    /\ data = EmptyData
    /\ creq = NoRequest
    /\ cout = [err |-> "", countries |-> {}]
    /\ called = FALSE

\* CountryMetadataFiltering.__init__
NewBuilder ==
    /\ called
    /\ data' = EmptyData
    /\ creq' = NoRequest
    /\ cout' = [err |-> "", countries |-> {}]
    /\ called' = FALSE
    /\ UNCHANGED <<evars, avars>>

\* CountryMetadataFiltering.filter_countries, called directly
FilterCountries(request) ==
    LET res == filter_countries(request, data)
    IN /\ data' = res.data
       /\ creq' = request
       /\ cout' = [err |-> res.err, countries |-> res.countries]
       /\ called' = TRUE
       /\ UNCHANGED <<evars, avars>>

CountryNext ==
    \/ NewBuilder
    \/ \E request \in CountryRequests : FilterCountries(request)

-----------------------------------------------------------------------------
(* The admin action that (re)generates the text pages of laws *)

\* Most pages a PDF file or a law's stored pages have.
MaxPdfPages == 2

\* Laws listed in the admin change list.
AdminLaws == {1, 2, 3}

\* The pdf_file field of a law without a file, and the files a law can have.
NoFile == [name |-> "", n |-> 0]
Files == {NoFile} \cup {[name |-> "law.pdf", n |-> k] : k \in 0..MaxPdfPages}

NoReport == [generated |-> 0, regenerated |-> 0, no_pdf |-> 0]

\* No admin action ran; no law has a file or stored pages.
AdminIdle ==
    /\ pdf_file = [law \in AdminLaws |-> NoFile]
    /\ pages = [law \in AdminLaws |-> 0]
    /\ before = pages
    /\ selected = {}
    /\ report = NoReport

\* No admin action ran; laws with and without a file, with and without
\* stored pages.
AdminStored ==
    /\ pdf_file \in [AdminLaws -> Files]
    /\ pages \in [AdminLaws -> 0..MaxPdfPages]
    /\ before = pages
    /\ selected = {}
    /\ report = NoReport

\* Legislation.save_pdf_pages: one LegislationPage row is stored for each
\* page of the law's PDF file.
save_pdf_pages(stored, law, file) == [stored EXCEPT ![law] = @ + file.n]

\* Lines 35-47, the body of the loop for one law. old_pages is a lazy
\* queryset: delete() leaves it unevaluated, so the test of line 44 reads
\* the rows stored at that moment.
generate_law(st, law, file) ==
    LET deleted == [st.pages EXCEPT ![law] = 0]
        saved == save_pdf_pages(deleted, law, file)
    IN IF file.name = ""
       THEN [st EXCEPT !.pages = deleted, !.no_pdf = @ + 1]
       ELSE IF saved[law] > 0
            THEN [st EXCEPT !.pages = saved, !.regenerated = @ + 1]
            ELSE [st EXCEPT !.pages = saved, !.generated = @ + 1]

\* Lines 31-47: the stored pages and the counters after the loop over
\* the laws of the queryset.
RECURSIVE generate_pages(_, _, _)
generate_pages(queryset, st, files) ==
    IF queryset = <<>>
    THEN st
    ELSE generate_pages(Tail(queryset),
                        generate_law(st, Head(queryset), files[Head(queryset)]),
                        files)

\* Lines 48-53: the message carries the three counters.
message_user(queryset, st) ==
    /\ before' = pages
    /\ selected' = queryset
    /\ pages' = st.pages
    /\ report' = [generated |-> st.generated, regenerated |-> st.regenerated,
                  no_pdf |-> st.no_pdf]

\* LegislationAdmin.generate_pages on the laws ticked in the change list.
GeneratePages(queryset) ==
    /\ queryset # {}
    /\ message_user(queryset,
                    generate_pages(SetToSeq(queryset),
                                   [pages |-> pages, generated |-> 0,
                                    regenerated |-> 0, no_pdf |-> 0],
                                   pdf_file))
    /\ UNCHANGED <<pdf_file, evars, cvars>>

AdminNext == \E queryset \in SUBSET AdminLaws : GeneratePages(queryset)

-----------------------------------------------------------------------------
(* Specifications *)

Init == CountryInit /\ ExplorerInit /\ AdminIdle

\* The admin action over laws with and without files and stored pages.
AdminInit == CountryInit /\ ExplorerInit /\ AdminStored

\* The explorer view over an index in step with the store.
Spec == Init /\ [][Next]_vars

\* The explorer view while laws are deleted and inner-hit payloads get lost.
SpecHydrate == Init /\ [][HydrateNext]_vars

\* The Facet Filter Builder called directly.
SpecCountry == Init /\ [][CountryNext]_vars

\* The admin action, run any number of times.
SpecAdmin == AdminInit /\ [][AdminNext]_vars

-----------------------------------------------------------------------------
(* Properties *)

Done == pc = "done"
Delivered == pc = "done" /\ out.err = ""

\* The documents the answered request returns over all its pages.
ResultSet ==
    IF out.err # "" THEN {}
    ELSE {id \in LawIds : Matches(IndexDoc(id), search.query)}

PagePks == [i \in DOMAIN out.laws |-> out.laws[i].pk]

\* C1: a hit whose record was deleted is dropped from the page, and every
\* record left on the page carries the highlight data of the hit with its own
\* identifier, in the ranking order of the index.
C1_PairedWithOwnHit ==
    (Delivered /\ search.sort = "") =>
        /\ PagePks = SelectSeq([i \in DOMAIN hits |-> hits[i].id], LAMBDA id : id \in store)
        /\ \A i \in DOMAIN out.laws : out.laws[i].hit = out.laws[i].pk

\* C2: a request whose classifications[] or tags[] holds only identifiers the
\* taxonomy store does not know completes, without error, with an empty page.
OnlyUnknownIds(ids, table) == ids # {} /\ NamesOf(table, ids) = {}

C2_UnknownIdsGiveEmptyPage ==
    (Done /\ (\/ OnlyUnknownIds(req.tags, TaxonomyTag)
              \/ OnlyUnknownIds(req.classifications, TaxonomyClassification))) =>
        /\ out.err = ""
        /\ out.count = 0
        /\ out.laws = <<>>

\* C3 as stated: page 0 and a non-integer page deliver the first page, a page
\* beyond the results the last one, and no page value raises.
C3_PageZeroIsFirstPage ==
    Done =>
        /\ out.err \notin {"PageNotAnInteger", "EmptyPage"}
        /\ (out.err = "" /\ req.page = Page(0)) => out.number = 1
        /\ (out.err = "" /\ req.page = NotAPage) => out.number = 1
        /\ (out.err = "" /\ req.page.t = "int" /\ req.page.i > out.num_pages) =>
                out.number = out.num_pages

\* C3 amended: a non-integer page delivers the first page; a page below 1
\* (page 0 included) or beyond the results delivers the last page; any other
\* page is delivered as asked; the paginator's exceptions never leave the view.
C3_PageZeroIsLastPage ==
    Done =>
        /\ out.err \notin {"PageNotAnInteger", "EmptyPage"}
        /\ out.err = "" =>
            /\ out.num_pages >= 1
            /\ (out.num_pages - 1) * LawsPerPage < (IF out.count = 0 THEN 1 ELSE out.count)
            /\ out.num_pages * LawsPerPage >= out.count
            /\ out.number =
                  (IF req.page.t # "int" THEN 1
                   ELSE IF req.page.i < 1 \/ req.page.i > out.num_pages THEN out.num_pages
                   ELSE req.page.i)
            /\ Len(hits) <= LawsPerPage
            /\ (out.number < out.num_pages => Len(hits) = LawsPerPage)

C3_Witness ==
    /\ Delivered
    /\ req.page = Page(0)
    /\ out.num_pages > 1
    /\ out.number = out.num_pages
    /\ out.laws # <<>>

\* C4: with from_year and to_year both set, a document is returned iff it
\* passes the request's other filters and one of its adoption, amendment or
\* mentioned years lies in [from_year, to_year]; with one bound only, the
\* result is that of the request without year bounds.
WithoutYears(r) == [r EXCEPT !.from_year = <<>>, !.to_year = <<>>]

OtherFilters(id, r) ==
    LET c == ComposeSearch(WithoutYears(r))
    IN c.err = "" /\ Matches(IndexDoc(id), c.search)

YearInBounds(id, lo, hi) ==
    \E y \in {Corpus[id].year} \cup Corpus[id].year_amendment \cup Corpus[id].year_mentions :
        lo <= y /\ y <= hi

C4_YearFilter ==
    Delivered =>
        IF req.from_year # <<>> /\ req.to_year # <<>>
        THEN ResultSet = {id \in LawIds : /\ OtherFilters(id, req)
                                          /\ YearInBounds(id, req.from_year[1], req.to_year[1])}
        ELSE ResultSet = {id \in LawIds : OtherFilters(id, req)}

\* C5: for a valid bucket index i of a range field, filter_range_fields
\* stores field >= table[i].min and field <= table[i].max; any index that is
\* no position of the table (too large, negative, non-numeric) is rejected.
ValidIndex(field, v) == v.t = "int" /\ 0 <= v.i /\ v.i < Len(RANGE_FIELDS[field])

C5_RangeIndex ==
    called =>
        \A f \in (DOMAIN creq) \cap Range(RANGE_FIELD_NAMES) :
            IF ValidIndex(f, creq[f])
            THEN cout.err = "" =>
                    /\ data[<<f, "__gte">>].i = RANGE_FIELDS[f][creq[f].i + 1][1]
                    /\ data[<<f, "__lte">>].i = RANGE_FIELDS[f][creq[f].i + 1][2]
            ELSE cout.err # ""

\* C6: filter_countries returns the countries that satisfy the predicates of
\* the request passed to that call and leaves nothing behind: on a builder
\* used before, a request is answered as on a new builder.
C6_PureRead ==
    (called /\ cout.err = "") =>
        /\ cout.countries = filter_countries(creq, EmptyData).countries
        /\ data = filter_countries(creq, EmptyData).data

\* C7: when a hit's top-level highlights show a matched article-level tag or
\* classification, the record of that document carries a non-empty list of
\* highlighted articles.
ShowsArticleMatch(hit) ==
    \/ MatchedNames(hit.highlight.article_tags) # <<>>
    \/ MatchedNames(hit.highlight.article_classifications) # <<>>

C7_ArticlesNeverEmpty ==
    (Delivered /\ search.sort = "") =>
        \A i \in DOMAIN hits :
            (ShowsArticleMatch(hits[i]) /\ hits[i].id \in store) =>
                \E j \in DOMAIN out.laws :
                    /\ out.laws[j].pk = hits[i].id
                    /\ out.laws[j].highlighted_articles.set
                    /\ out.laws[j].highlighted_articles.v # <<>>

\* C8: the fallback query runs for a hit only when that hit has no inner hits
\* and its own top-level highlights hold an emphasized article-level tag or
\* classification, and it uses the names matched for that hit alone.
C8_FallbackPerHit ==
    (Delivered /\ search.sort = "") =>
        \A j \in DOMAIN out.laws :
            out.laws[j].fallback =>
                \E i \in DOMAIN hits :
                    /\ hits[i].id = out.laws[j].hit
                    /\ hits[i].inner = <<>>
                    /\ ShowsArticleMatch(hits[i])
                    /\ Range(out.laws[j].fb_tags)
                           = Range(MatchedNames(hits[i].highlight.article_tags))
                    /\ Range(out.laws[j].fb_classifications)
                           = Range(MatchedNames(hits[i].highlight.article_classifications))

\* C9: with tags[] alone (no free text, no classifications, no sort, no other
\* filter) a document is returned iff its own tags or the tags of one of its
\* articles include a requested tag name; neither level requires the other.
OnlyTags(r) ==
    /\ r.tags # {}
    /\ [r EXCEPT !.tags = {}, !.page = Page(1)] = IdleRequest

OwnTags(id) == Range(Corpus[id].tags)
ArticleTags(id) == UNION {Range(Corpus[id].articles[i].tags) : i \in DOMAIN Corpus[id].articles}

TextAndFacets(r) ==
    /\ r.q # <<>>
    /\ r.tags # {} \/ r.classifications # {}
    /\ [r EXCEPT !.q = <<>>, !.tags = {}, !.classifications = {}, !.page = Page(1)]
           = IdleRequest

\* The facet types the request selects, each with its names.
Selected(r) ==
    (IF r.tags # {} THEN {[type |-> "tags", names |-> NamesOf(TaxonomyTag, r.tags)]}
     ELSE {})
    \cup (IF r.classifications # {}
          THEN {[type |-> "classifications",
                 names |-> NamesOf(TaxonomyClassification, r.classifications)]}
          ELSE {})

FacetsInDocument(id, r) ==
    \A f \in Selected(r) :
        f.names \cap (Range(Corpus[id][f.type])
                      \cup UNION {Range(Corpus[id].articles[i][f.type]) :
                                     i \in DOMAIN Corpus[id].articles}) # {}

FacetsInArticle(id, i, r) ==
    \A f \in Selected(r) :
        f.names \cap (Range(Corpus[id].articles[i][f.type]) \cup Range(Corpus[id][f.type])) # {}

TextInDocument(id, q) ==
    q \in Range(Corpus[id].title) \cup Range(Corpus[id].abstract)
          \cup Range(Corpus[id].pdf_text) \cup Range(Corpus[id].classifications)
          \cup Range(Corpus[id].tags)

FirstAlternative(id, r) ==
    /\ TextInDocument(id, r.q)
    /\ \E i \in DOMAIN Corpus[id].articles : FacetsInArticle(id, i, r)

SecondAlternative(id, r) ==
    /\ FacetsInDocument(id, r)
    /\ \E i \in DOMAIN Corpus[id].articles :
          FacetsInArticle(id, i, r) /\ r.q \in Range(Corpus[id].articles[i].text)

CountryUnion(r) == r.countries \cup filter_countries(r.meta, EmptyData).countries

C11_CountryTermsStrictSubset ==
    (Delivered /\ search.query.country.on) =>
        /\ search.query.country.v = CountryUnion(req)
        /\ search.query.country.v # Countries

\* C12: with countries[] supplied and no metadata parameter (and no explicit
\* sort), every returned document belongs to one of the listed countries.
C12_ListedCountriesOnly ==
    (Delivered /\ search.sort = "" /\ req.countries # {} /\ req.meta = NoRequest) =>
        /\ \A id \in ResultSet : Corpus[id].country \in req.countries
        /\ \A i \in DOMAIN out.laws : Corpus[out.laws[i].pk].country \in req.countries

\* The rank a record holds on the delivered page, counted over all pages.
GlobalRank(i) == (out.number - 1) * LawsPerPage + i

YearKey(id, dir) == IF dir = "1" THEN Corpus[id].year ELSE 0 - Corpus[id].year
NameKey(id, dir) ==
    IF dir = "1" THEN CountryRow[Corpus[id].country].name
    ELSE 0 - CountryRow[Corpus[id].country].name
RelevanceKey(id, dir) == 0 - Score(IndexDoc(id), search.query)

\* The page is a slice of the results put in ascending order of Key(_, dir):
\* fewer results than a record's rank sort strictly before it, and at least
\* as many sort before or with it.
PageOrderedBy(Key(_, _), dir) ==
    \A i \in DOMAIN out.laws :
        LET x == out.laws[i].pk
        IN /\ Cardinality({d \in ResultSet : Key(d, dir) < Key(x, dir)}) < GlobalRank(i)
           /\ Cardinality({d \in ResultSet : Key(d, dir) <= Key(x, dir)}) >= GlobalRank(i)

NoHighlightData == \A i \in DOMAIN out.laws : out.laws[i] = Plain(out.laws[i].pk)

\* C13 as stated: with promulgation_sort the page is ordered by adoption year,
\* with country_sort by country name, ascending iff the value is '1'; sorted
\* pages carry no highlight data; without a sort a text query is delivered in
\* decreasing relevance order.
C13_EachSortParameterOrders ==
    Delivered =>
        /\ req.promulgation_sort # "" => PageOrderedBy(YearKey, req.promulgation_sort)
        /\ req.country_sort # "" => PageOrderedBy(NameKey, req.country_sort)
        /\ (req.promulgation_sort # "" \/ req.country_sort # "") => NoHighlightData
        /\ (req.promulgation_sort = "" /\ req.country_sort = "" /\ req.q # <<>>) =>
               PageOrderedBy(RelevanceKey, "")

\* C13 amended: promulgation_sort, when supplied, decides the order alone;
\* country_sort orders the page only when promulgation_sort is absent.
C13_PromulgationSortFirst ==
    Delivered =>
        /\ req.promulgation_sort # "" => PageOrderedBy(YearKey, req.promulgation_sort)
        /\ (req.promulgation_sort = "" /\ req.country_sort # "") =>
               PageOrderedBy(NameKey, req.country_sort)
        /\ (req.promulgation_sort # "" \/ req.country_sort # "") => NoHighlightData
        /\ (req.promulgation_sort = "" /\ req.country_sort = "" /\ req.q # <<>>) =>
               PageOrderedBy(RelevanceKey, "")

C13_Witness ==
    /\ Delivered
    /\ req.promulgation_sort # "" /\ req.country_sort # ""
    /\ Len(out.laws) = LawsPerPage
    /\ ~PageOrderedBy(NameKey, req.country_sort)

\* C14: a request with no classification, tag, free text or explicit sort is
\* answered in ascending order of document identifier: the delivered page is
\* the page's slice of the matching identifiers in ascending order, so it is
\* fixed by the request and the index alone.
NoScoreNoSort(r) ==
    /\ r.classifications = {} /\ r.tags = {} /\ r.q = <<>>
    /\ r.promulgation_sort = "" /\ r.country_sort = ""

BothFacets(r) ==
    /\ r.classifications # {} /\ r.tags # {}
    /\ [r EXCEPT !.classifications = {}, !.tags = {}, !.page = Page(1)] = IdleRequest

OwnClassifications(id) == Range(Corpus[id].classifications)
ArticleClassifications(id) ==
    UNION {Range(Corpus[id].articles[i].classifications) : i \in DOMAIN Corpus[id].articles}

HasSelectedTag(id, r) ==
    (OwnTags(id) \cup ArticleTags(id)) \cap NamesOf(TaxonomyTag, r.tags) # {}
HasSelectedClassification(id, r) ==
    (OwnClassifications(id) \cup ArticleClassifications(id))
        \cap NamesOf(TaxonomyClassification, r.classifications) # {}

HitIds == [i \in DOMAIN hits |-> hits[i].id]

SliceLength ==
    IF out.count - Bottom(out.number) < LawsPerPage
    THEN (IF out.count > Bottom(out.number) THEN out.count - Bottom(out.number) ELSE 0)
    ELSE LawsPerPage

WithoutSort(r) == [r EXCEPT !.promulgation_sort = "", !.country_sort = ""]

ReturnedFor(r) ==
    LET c == ComposeSearch(r)
    IN IF c.err # "" THEN {} ELSE {id \in LawIds : Matches(IndexDoc(id), c.search)}

C17_SortKeepsTheResultSet ==
    (Delivered /\ (req.promulgation_sort # "" \/ req.country_sort # "")
               /\ ComposeSearch(WithoutSort(req)).err = "") =>
        /\ ResultSet = ReturnedFor(WithoutSort(req))
        /\ out.count = Cardinality(ReturnedFor(WithoutSort(req)))

\* C18: a document returned for tags[] alone whose own fields match q is also
\* returned when q and the same tags[] are combined, articles or not.
JustTags(r) == [IdleRequest EXCEPT !.tags = r.tags]

C18_TextAndTagsKeepDocumentMatches ==
    (Delivered /\ req.q # <<>> /\ req.tags # {}
               /\ [req EXCEPT !.q = <<>>, !.tags = {}, !.page = Page(1)] = IdleRequest) =>
        \A id \in ReturnedFor(JustTags(req)) :
            TextInDocument(id, req.q) => id \in ResultSet

\* C19: the highlighted-article list the fallback path builds holds each
\* article of the document at most once.
ArticlePks(v) == [i \in DOMAIN v |-> v[i].pk]

C19_FallbackListsArticleOnce ==
    (Delivered /\ search.sort = "") =>
        \A j \in DOMAIN out.laws :
            out.laws[j].fallback =>
                LET v == out.laws[j].highlighted_articles.v
                IN Cardinality(Range(ArticlePks(v))) = Len(v)


\* C20: generate_pages puts every selected law into exactly one counter:
\* 'skipped' (no PDF), 'regenerated' (PDF, stored pages before the action),
\* 'generated' (PDF, no stored pages before); the counters sum to the number
\* of selected laws, and a skipped law keeps its stored pages.
HadPages(law) == before[law] > 0

C20_CountersClassifyByPagesBefore ==
    selected # {} =>
        /\ report.no_pdf = Cardinality({law \in selected : pdf_file[law].name = ""})
        /\ report.regenerated =
               Cardinality({law \in selected : pdf_file[law].name # "" /\ HadPages(law)})
        /\ report.generated =
               Cardinality({law \in selected : pdf_file[law].name # "" /\ ~HadPages(law)})
        /\ report.generated + report.regenerated + report.no_pdf
               = Cardinality(selected)
        /\ \A law \in selected : pdf_file[law].name = "" => pages[law] = before[law]

====
